---- MODULE Spec2Model ----
(***************************************************************************)
(* Bitrix synchronisation (plugins/bitrix/src/sync.ts): the field diff     *)
(* (updateDoc, updateMixin), the per-record merge (syncDocument) and the   *)
(* paging loop (performSynchronization, doPerformSync).                    *)
(*                                                                         *)
(* Values are integers: Undefined and Null are the two JavaScript empty    *)
(* values, numbers below ObjBase are primitives, numbers from ObjBase on   *)
(* are objects (arrays, records) named by their content.  A document is a  *)
(* record [top, has, mx]: top maps the document's own keys to values, has  *)
(* is the set of mixins the document carries and mx holds each mixin's     *)
(* attributes (the store keeps them under the mixin's key, which is what   *)
(* the query key  BitrixSyncDoc + '.bitrixId'  of doPerformSync reads).    *)
(***************************************************************************)
EXTENDS Integers, Sequences, FiniteSets, TLC

VARIABLES
  store,     \* the committed documents of the target store
  now,       \* Date.now()
  nextId,    \* generateId(): the next fresh identity
  diff,      \* SpecDiff: one updateDoc / updateMixin call and its outcome
  mrg,       \* SpecMerge: the converted input and the last syncDocument call
  run        \* Spec: performSynchronization / doPerformSync

vars == <<store, now, nextId, diff, mrg, run>>

----------------------------------------------------------------------------
(* Values *)

Undefined == -1
Null == -2
ObjBase == 100

IsObject(v) == v >= ObjBase

\* `===`: two objects are the same only when they are the same reference, and a
\* freshly converted value never is the stored one.
strictEqual(a, b) == a = b /\ ~IsObject(a)

\* Comparison by reference instead of by content.
refEqual(a, b) == a = b /\ ~IsObject(a)

\* fast-equals deepEqual: equal content.
deepEqual(a, b) == a = b

\* `v != null` is loose: it rejects null and undefined.
notNullish(v) == v /= Null /\ v /= Undefined

----------------------------------------------------------------------------
(* Keys *)

SystemKeys ==
  {"_class", "_id", "modifiedBy", "modifiedOn", "space", "attachedTo", "attachedToClass"}

BitrixSyncDoc == "bitrix:mixin:BitrixSyncDoc"
OtherMixin == "other:mixin"
Mixins == {BitrixSyncDoc, OtherMixin}

MKeys == {"type", "bitrixId", "rawData", "syncTime"}

NoMixinData == [k \in MKeys |-> Undefined]

----------------------------------------------------------------------------
(* updateDoc / updateMixin: the field diff *)

skipSystem(k) == k \in SystemKeys

\* The keys the diff loop puts into documentUpdate: cur is the stored side
\* (doc[k]), raw the incoming side.
diffKeysNoNullCheck(cur, raw) ==
  {k \in DOMAIN raw : ~skipSystem(k) /\ ~deepEqual(cur[k], raw[k])}

diffKeys(cur, raw) ==
  {k \in DOMAIN raw : ~skipSystem(k) /\ ~deepEqual(cur[k], raw[k]) /\ notNullish(raw[k])}

\* TxProcessor.applyUpdate: the update's keys are set on the document.
applyUpdate(cur, raw, keys) ==
  [k \in DOMAIN cur |-> IF k \in keys THEN raw[k] ELSE cur[k]]


----------------------------------------------------------------------------
(* Documents and the store *)

ClsPrimary == 1      \* ops.mapping.ofClass
ClsComment == 2      \* chunter.class.Comment
ClsAttachment == 3   \* attachment.class.Attachment
ClsTag == 4          \* tags.class.TagElement, an extra (supplier) document
ClsMember == 5       \* contact.class.Member
ClsContact == 6      \* the class of the Contact mapping

\* core.class.AttachedDoc and the classes derived from it.
isDerivedAttached(cl) == cl \in {ClsComment, ClsAttachment, ClsMember}

NoRef == 0
EmptyString == 0

DocKeys ==
  {"_id", "_class", "attachedTo", "name", "message", "bitrixId", "type", "rawData",
   "size", "file", "contact"}

BlankTop == [k \in DocKeys |-> Undefined]

MkDoc(top) == [top |-> top, has |-> {}, mx |-> [m \in Mixins |-> NoMixinData]]

DocsById(S, id) == {d \in S : d.top["_id"] = id}

\* hierarchy.as(doc, mixin): the document seen through the mixin.
asMixin(d, m) == d.mx[m]

hasMixin(d, m) == m \in d.has

\* A findAll result in the store's order (identities grow with creation).
RECURSIVE SeqOfDocs(_)
SeqOfDocs(S) ==
  IF S = {} THEN <<>>
  ELSE LET d == CHOOSE x \in S : \A y \in S : x.top["_id"] <= y.top["_id"]
       IN <<d>> \o SeqOfDocs(S \ {d})

findAttached(S, cl, parent) ==
  SeqOfDocs({d \in S : d.top["_class"] = cl /\ d.top["attachedTo"] = parent})

(* One write call.  data holds the values, keys the keys of data the call    *)
(* carries; mixin is "" for a call on the document itself.                   *)
Op(op, id, mixin, data, keys) ==
  [op |-> op, id |-> id, mixin |-> mixin, data |-> data, keys |-> keys]

ApplyOp(S, o) ==
  CASE o.op \in {"createDoc", "addCollection"} ->
         (S \ DocsById(S, o.id)) \cup {MkDoc([o.data EXCEPT !["_id"] = o.id])}
    [] o.op = "update" ->
         {IF d.top["_id"] = o.id
            THEN [d EXCEPT !.top = applyUpdate(d.top, o.data, o.keys)]
            ELSE d : d \in S}
    [] o.op = "createMixin" ->
         {IF d.top["_id"] = o.id
            THEN [d EXCEPT !.has = @ \cup {o.mixin}, !.mx[o.mixin] = o.data]
            ELSE d : d \in S}
    [] o.op = "updateMixin" ->
         {IF d.top["_id"] = o.id
            THEN [d EXCEPT !.has = @ \cup {o.mixin},
                           !.mx[o.mixin] = applyUpdate(d.mx[o.mixin], o.data, o.keys)]
            ELSE d : d \in S}
    [] o.op = "remove" -> S \ DocsById(S, o.id)
    [] OTHER -> S

RECURSIVE ApplyOps(_, _)
ApplyOps(S, ops) ==
  IF ops = <<>> THEN S ELSE ApplyOps(ApplyOp(S, Head(ops)), Tail(ops))

----------------------------------------------------------------------------
(* updateDoc and updateMixin as calls on a transaction: the writes each     *)
(* issues, and the caller's local copy afterwards.                          *)

\* updateDoc (41-58): d is the local document, raw the incoming one.
updateDocOps(d, raw) ==
  LET keys == diffKeys(d.top, raw)
  IN IF keys /= {} THEN <<Op("update", d.top["_id"], "", raw, keys)>> ELSE <<>>

updateDocLocal(d, raw) ==
  [d EXCEPT !.top = applyUpdate(d.top, raw, diffKeys(d.top, raw))]

\* updateMixin (60-87): create the mixin when the document has none, else diff.
updateMixinOps(d, raw, m) ==
  IF ~hasMixin(d, m)
    THEN <<Op("createMixin", d.top["_id"], m, raw, DOMAIN raw)>>
    ELSE LET keys == diffKeys(asMixin(d, m), raw)
         IN IF keys /= {} THEN <<Op("updateMixin", d.top["_id"], m, raw, keys)>> ELSE <<>>


----------------------------------------------------------------------------
(* syncDocument (92-303) *)

\* `const { bitrixId, rawData, ...data } = x`: the document without the two
\* trait fields.
stripTrait(top) == [top EXCEPT !["bitrixId"] = Undefined, !["rawData"] = Undefined]

\* The trait of an attached document (244-248, 270-274): no syncTime.
traitOf(val) ==
  [k \in MKeys |-> IF k = "syncTime" THEN Undefined ELSE val[k]]

\* updateAttachedDoc (232-279): the writes, for a matched (ex = <<doc>>) or a
\* new (ex = <<>>) attached document.
updateAttachedDocOps(ex, val) ==
  IF ex /= <<>>
    THEN updateDocOps(ex[1], val)
         \o updateMixinOps(updateDocLocal(ex[1], val), traitOf(val), BitrixSyncDoc)
    ELSE << Op("addCollection", val["_id"], "", stripTrait(val), DOMAIN val),
            Op("createMixin", val["_id"], BitrixSyncDoc, traitOf(val), MKeys \ {"syncTime"}) >>

\* updateMainDoc (281-302).  ex is <<existing>> or <<>>.
mainDocument(ex, res) ==
  IF ex /= <<>> THEN [res.document EXCEPT !["_id"] = ex[1].top["_id"]] ELSE res.document

updateMainDocOps(ex, res) ==
  IF ex /= <<>>
    THEN updateDocOps(ex[1], mainDocument(ex, res))
    ELSE <<Op("createDoc", res.document["_id"], "", stripTrait(res.document),
              DOMAIN res.document)>>

\* What updateMainDoc returns: the existing document as updated locally, or
\* resultDoc.document, which carries no mixin.
mainLocal(ex, res) ==
  IF ex /= <<>> THEN updateDocLocal(ex[1], mainDocument(ex, res)) ELSE MkDoc(res.document)

\* The mixins of the merge (107-115): the converted ones and the sync trait.
syncTrait(res, t) ==
  [type |-> res.document["type"], bitrixId |-> res.document["bitrixId"],
   rawData |-> res.rawData, syncTime |-> t]

mixinsOf(res, t) ==
  [m \in res.mixins \cup {BitrixSyncDoc} |->
     IF m = BitrixSyncDoc THEN syncTrait(res, t) ELSE res.mixinData]

\* Object.entries order: the converted mixins first, the sync trait last.
RECURSIVE SeqOfSet(_)
SeqOfSet(S) ==
  IF S = {} THEN <<>>
  ELSE LET x == CHOOSE y \in S : \A z \in S : (y = BitrixSyncDoc) => (z = BitrixSyncDoc)
       IN <<x>> \o SeqOfSet(S \ {x})

\* updateMixins (305-329).
RECURSIVE updateMixinsOps(_, _, _, _)
updateMixinsOps(ms, mixins, local, id) ==
  IF ms = <<>> THEN <<>>
  ELSE LET m == Head(ms)
           one == IF ~hasMixin(local, m)
                    THEN <<Op("createMixin", id, m, mixins[m], DOMAIN mixins[m])>>
                    ELSE updateMixinOps(local, mixins[m], m)
       IN one \o updateMixinsOps(Tail(ms), mixins, local, id)

\* Extra documents (120-130): created, never looked up.
RECURSIVE extraDocsOps(_)
extraDocsOps(eds) ==
  IF eds = <<>> THEN <<>>
  ELSE <<Op("createDoc", Head(eds)["_id"], "", Head(eds), DOMAIN Head(eds))>>
       \o extraDocsOps(Tail(eds))

\* existingByClass.findIndex (146-148): the first existing document whose trait
\* holds the pending document's remote id; 0 when there is none.
findIndexById(pool, bid) ==
  LET hits == {i \in 1..Len(pool) : strictEqual(asMixin(pool[i], BitrixSyncDoc)["bitrixId"], bid)}
  IN IF hits = {} THEN 0 ELSE CHOOSE i \in hits : \A j \in hits : i <= j

RemoveAt(seq, i) == [j \in 1..(Len(seq) - 1) |-> IF j < i THEN seq[j] ELSE seq[j + 1]]

\* The loop over the pending documents of one class (145-156): the writes it
\* issues and what is left of the existing pool.
RECURSIVE reconcileVals(_, _, _)
reconcileVals(vals, pool, docId) ==
  IF vals = <<>> THEN [ops |-> <<>>, pool |-> pool]
  ELSE LET val == [Head(vals) EXCEPT !["attachedTo"] = docId]
           idx == findIndexById(pool, val["bitrixId"])
           ex == IF idx > 0 THEN <<pool[idx]>> ELSE <<>>
           rest == reconcileVals(Tail(vals), IF idx > 0 THEN RemoveAt(pool, idx) ELSE pool, docId)
       IN [ops |-> updateAttachedDocOps(ex, val) \o rest.ops, pool |-> rest.pool]

\* byClass (133-137): the classes of the pending documents, in the order met.
RECURSIVE classesOf(_, _)
classesOf(vals, seen) ==
  IF vals = <<>> THEN <<>>
  ELSE IF Head(vals)["_class"] \in seen THEN classesOf(Tail(vals), seen)
       ELSE <<Head(vals)["_class"]>> \o classesOf(Tail(vals), seen \cup {Head(vals)["_class"]})

SelectClass(vals, cl) == SelectSeq(vals, LAMBDA v : v["_class"] = cl)

RECURSIVE removeOps(_)
removeOps(pool) ==
  IF pool = <<>> THEN <<>>
  ELSE <<Op("remove", Head(pool).top["_id"], "", BlankTop, {})>> \o removeOps(Tail(pool))

\* Collection reconciliation (139-163) over every class: the writes put into
\* the transaction and the removals, which go to the client directly (160).
RECURSIVE reconcile(_, _, _, _)
reconcile(cls, S, res, docId) ==
  IF cls = <<>> THEN [tx |-> <<>>, direct |-> <<>>]
  ELSE LET cl == Head(cls)
           rest == reconcile(Tail(cls), S, res, docId)
       IN IF ~isDerivedAttached(cl) THEN rest
          ELSE LET r == reconcileVals(SelectClass(res.extraSync, cl),
                                      findAttached(S, cl, docId), docId)
               IN [tx |-> r.ops \o rest.tx, direct |-> removeOps(r.pool) \o rest.direct]


\* Files that agree in name alone taken for the same file.
nameMatch(d, ed) == strictEqual(d.top["name"], ed["name"])

\* Attachment reconciliation (165-225).  A pending attachment is
\* [ed, load, up]: the descriptor, what its loader returns (st is "ok",
\* "undefined" or "throws", and the file's name, size and type) and what the
\* upload answers ("200", "500" or "throws").
nstMatch(d, ed) ==
  /\ strictEqual(d.top["name"], ed["name"])
  /\ strictEqual(d.top["size"], ed["size"])
  /\ strictEqual(d.top["type"], ed["type"])

\* The mutator (701-706) and lines 186-188: the file's metadata on the descriptor.
withFile(ed, f) == [ed EXCEPT !["name"] = f.name, !["size"] = f.size, !["type"] = f.type]

RECURSIVE removeHits(_, _, _)
removeHits(pool, hits, i) ==
  IF i > Len(pool) THEN <<>>
  ELSE (IF i \in hits THEN <<Op("remove", pool[i].top["_id"], "", BlankTop, {})>> ELSE <<>>)
       \o removeHits(pool, hits, i + 1)

\* The loop given up at the first file that fails to load or to upload.
RECURSIVE blobLoopUntilFailure(_, _, _)
blobLoopUntilFailure(blobs, pool, nid) ==
  IF blobs = <<>> \/ Head(blobs).load.st /= "ok" \/ Head(blobs).up /= "200"
    THEN [ops |-> <<>>, uploads |-> <<>>, loads |-> <<>>, nid |-> nid]
    ELSE LET rest == blobLoopUntilFailure(Tail(blobs), pool, nid + 1)
             bid == Head(blobs).ed["bitrixId"]
         IN [ops |-> rest.ops, uploads |-> <<bid>> \o rest.uploads,
             loads |-> <<bid>> \o rest.loads, nid |-> rest.nid]

RECURSIVE blobLoop(_, _, _)
blobLoop(blobs, pool, nid) ==
  IF blobs = <<>> THEN [ops |-> <<>>, uploads |-> <<>>, loads |-> <<>>, nid |-> nid]
  ELSE
    LET b == Head(blobs)
        bid == b.ed["bitrixId"]
    IN IF findIndexById(pool, bid) > 0 THEN blobLoop(Tail(blobs), pool, nid)
       ELSE
         LET attachmentId == nid
             ed == withFile(b.ed, b.load)
             hits == {i \in 1..Len(pool) : nstMatch(pool[i], ed)}
             first == CHOOSE i \in hits : \A j \in hits : i <= j
             created == [ed EXCEPT !["file"] = attachmentId, !["_id"] = attachmentId]
             one ==
               IF b.load.st /= "ok"
                 THEN [ops |-> <<>>, up |-> <<>>, pool |-> pool]
               ELSE IF hits /= {}
                 THEN [ops |-> updateAttachedDocOps(<<pool[first]>>, ed)
                               \o removeHits(pool, hits \ {first}, 1),
                       up |-> <<>>,
                       pool |-> [pool EXCEPT ![first] = updateDocLocal(pool[first], ed)]]
               ELSE [ops |-> IF b.up = "200" THEN updateAttachedDocOps(<<>>, created) ELSE <<>>,
                     up |-> <<bid>>, pool |-> pool]
             rest == blobLoop(Tail(blobs), one.pool, nid + 1)
         IN [ops |-> one.ops \o rest.ops, uploads |-> one.up \o rest.uploads,
             loads |-> <<bid>> \o rest.loads, nid |-> rest.nid]

(* The steps of syncDocument that can raise, in order; failAt names the one  *)
(* that does, 0 for none.  The attachment loop catches its own errors.       *)
StepMain == 1        \* updateMainDoc (105)
StepMixins == 2      \* updateMixins (118)
StepExtra == 3       \* applyOp.createDoc of an extra document (122)
StepFindSub == 4     \* client.findAll of the existing sub-documents (141)
StepAttached == 5    \* updateAttachedDoc (155)
StepRemove == 6      \* client.remove of an orphan (160)
StepFindBlobs == 7   \* client.findAll of the existing attachments (165)
StepCommit == 8      \* applyOp.commit (226)
FailPoints == 0..8

Passed(failAt, step) == failAt = 0 \/ failAt > step

\* A write as the log keeps it: the call, its target and the keys it carries.
WriteOf(o) == [op |-> o.op, id |-> o.id, mixin |-> o.mixin, keys |-> o.keys]

syncDocument(S, ex, res, failAt, t, nid) ==
  LET doc == mainDocument(ex, res)
      docId == doc["_id"]
      local == mainLocal(ex, res)
      mixins == mixinsOf(res, t)
      ops1 == updateMainDocOps(ex, res)
      ops2 == updateMixinsOps(SeqOfSet(DOMAIN mixins), mixins, local, docId)
      ops3 == extraDocsOps(res.extraDocs)
      rec == reconcile(classesOf(res.extraSync, {}), S, res, docId)
      \* client.remove (160) acts on the store at once, outside the transaction.
      S6 == IF Passed(failAt, StepRemove) THEN ApplyOps(S, rec.direct) ELSE S
      ranBlobs == Passed(failAt, StepFindBlobs)
      bl == IF ranBlobs
              THEN blobLoop(res.blobs, findAttached(S6, ClsAttachment, docId), nid)
              ELSE [ops |-> <<>>, uploads |-> <<>>, loads |-> <<>>, nid |-> nid]
      tx == ops1 \o ops2 \o ops3 \o rec.tx \o bl.ops
      \* The writes that reached the store: the removals at once, the
      \* transaction's with its commit.
      done == (IF Passed(failAt, StepRemove) THEN rec.direct ELSE <<>>)
              \o (IF failAt = 0 THEN tx ELSE <<>>)
  IN [store |-> IF failAt = 0 THEN ApplyOps(S6, tx) ELSE S6,
      committed |-> failAt = 0,
      writes |-> [i \in 1..Len(done) |-> WriteOf(done[i])],
      uploads |-> bl.uploads,
      loads |-> bl.loads,
      nid |-> bl.nid,
      document |-> doc,
      local |-> IF ex /= <<>> /\ Passed(failAt, StepMain) THEN <<local>> ELSE ex]


----------------------------------------------------------------------------
(* Converted input: what convert and downloadComments hand to syncDocument  *)

MaxConverts == 2
MaxMerges == 2
MaxTime == 1
MaxBlobs == 1
MaxComment == 2

RecordId == 1
CommentIds == 1..MaxComment
Names == {1, 2}
Sizes == {1, 2}
RawPayload == ObjBase + 1
OtherData == [k \in MKeys |-> IF k = "type" THEN 7 ELSE Undefined]

Outcomes == {[st |-> "ok", up |-> "200"], [st |-> "ok", up |-> "500"],
             [st |-> "ok", up |-> "throws"], [st |-> "undefined", up |-> "200"],
             [st |-> "throws", up |-> "200"]}

primaryTop(id, cls, bid, name) ==
  [BlankTop EXCEPT !["_id"] = id, !["_class"] = cls, !["bitrixId"] = bid,
                   !["type"] = 1, !["name"] = name]

\* A remote comment as downloadComments builds it (659-672).
commentTop(id, parent, bid, msg) ==
  [BlankTop EXCEPT !["_id"] = id, !["_class"] = ClsComment, !["attachedTo"] = parent,
                   !["bitrixId"] = bid, !["type"] = 2, !["message"] = msg]

\* A remote file as downloadComments registers it (678-694): file is ''.
attachmentTop(id, parent, bid) ==
  [BlankTop EXCEPT !["_id"] = id, !["_class"] = ClsAttachment, !["attachedTo"] = parent,
                   !["bitrixId"] = bid, !["type"] = 3, !["name"] = 1, !["size"] = 1,
                   !["file"] = EmptyString]

tagTop(id) == [BlankTop EXCEPT !["_id"] = id, !["_class"] = ClsTag, !["name"] = 1]

SetToSeq(S) ==
  LET RECURSIVE build(_)
      build(T) == IF T = {} THEN <<>>
                  ELSE LET x == CHOOSE y \in T : \A z \in T : y <= z
                       IN <<x>> \o build(T \ {x})
  IN build(S)

\* The input for one remote record: the primary takes identity id, the
\* comments and files the identities after it.
convertResult(id, cls, bid, name, ms, tag, cs, msg, nb, onComment) ==
  LET cseq == SetToSeq(cs)
      comments == [i \in 1..Len(cseq) |-> commentTop(id + i, id, cseq[i], msg)]
      base == id + Len(cseq)
      parent == IF onComment /\ cs /= {} THEN id + 1 ELSE id
  IN [document |-> primaryTop(id, cls, bid, name),
      rawData |-> RawPayload,
      mixins |-> ms,
      mixinData |-> OtherData,
      extraDocs |-> IF tag THEN <<tagTop(base + nb + 1)>> ELSE <<>>,
      extraSync |-> comments,
      blobs |-> [i \in 1..nb |->
                   [ed |-> attachmentTop(base + i, parent, i),
                    load |-> [st |-> "ok", name |-> 1, size |-> 1, type |-> 3],
                    up |-> "200"]]]

idsUsed(cs, nb, tag) == 1 + Cardinality(cs) + nb + (IF tag THEN 1 ELSE 0)

NoInput == convertResult(0, ClsPrimary, 0, 1, {}, FALSE, {}, 1, 0, FALSE)

\* The environment's answers for the attachments of one merge.
withOutcomes(res, outs) ==
  [res EXCEPT !.blobs = [i \in 1..Len(res.blobs) |->
     [res.blobs[i] EXCEPT !.load.st = outs[i].st, !.up = outs[i].up]]]

\* existingDocuments.find (498-500): the primary whose trait holds the id.
findExisting(docs, bid) ==
  LET hits == {i \in 1..Len(docs) : strictEqual(asMixin(docs[i], BitrixSyncDoc)["bitrixId"], bid)}
  IN IF hits = {} THEN <<>> ELSE <<docs[CHOOSE i \in hits : \A j \in hits : i <= j]>>

findByClass(S, cl) == SeqOfDocs({d \in S : d.top["_class"] = cl})


----------------------------------------------------------------------------
(* SpecMerge: one remote record, converted and merged again and again       *)

DiffIdle == [phase |-> "idle"]
RunIdle == [pc |-> "off"]

NoLast ==
  [kind |-> "none", committed |-> FALSE, writes |-> <<>>, uploads |-> <<>>,
   loads |-> <<>>, before |-> {}, docId |-> 0, failAt |-> 0]

MergeIdle ==
  [res |-> NoInput, has |-> FALSE, seq |-> 0, merges |-> 0, converts |-> 0, last |-> NoLast]

MergeInit ==
  /\ store = {}
  /\ now = 0
  /\ nextId = 1
  /\ diff = DiffIdle
  /\ run = RunIdle
  /\ mrg = MergeIdle

\* convert and downloadComments produce a fresh input for the record.
Convert ==
  /\ mrg.converts < MaxConverts
  /\ \E name \in Names, ms \in SUBSET {OtherMixin}, tag \in BOOLEAN,
        cs \in SUBSET CommentIds, nb \in 0..MaxBlobs, onComment \in BOOLEAN :
       /\ tag = (ms /= {})
       /\ onComment => (nb > 0 /\ cs /= {})
       /\ mrg' = [mrg EXCEPT
                    !.res = convertResult(nextId, ClsPrimary, RecordId, name, ms, tag, cs, 1, nb,
                                          onComment),
                    !.has = TRUE, !.seq = 0, !.converts = @ + 1]
       /\ nextId' = nextId + idsUsed(cs, nb, tag)
  /\ UNCHANGED <<store, now, diff, run>>

\* syncDocument on the current input, against the store as it is.
Merge ==
  /\ mrg.has
  /\ mrg.merges < MaxMerges
  /\ \E failAt \in FailPoints, outs \in [1..Len(mrg.res.blobs) -> Outcomes] :
     \E ex \in {findExisting(findByClass(store, ClsPrimary), mrg.res.document["bitrixId"])} :
     \E r \in {syncDocument(store, ex, withOutcomes(mrg.res, outs), failAt, now, nextId)} :
       /\ store' = r.store
       /\ nextId' = r.nid
       /\ mrg' = [mrg EXCEPT
                    !.seq = IF r.committed THEN @ + 1 ELSE 0,
                    !.merges = @ + 1,
                    !.last = [kind |-> "merge", committed |-> r.committed,
                              writes |-> r.writes,
                              uploads |-> r.uploads, loads |-> r.loads,
                              before |-> store, docId |-> r.document["_id"],
                              failAt |-> failAt]]
  /\ UNCHANGED <<now, diff, run>>

Tick ==
  /\ now < MaxTime
  /\ now' = now + 1
  /\ UNCHANGED <<store, nextId, diff, mrg, run>>

MergeNext == Convert \/ Merge \/ Tick

SpecMerge == MergeInit /\ [][MergeNext]_vars


----------------------------------------------------------------------------
(* Properties of the merge, under SpecMerge *)

\* The current input was merged and committed, and nothing was converted since.
JustCommitted == mrg.last.kind = "merge" /\ mrg.seq >= 1

SubDocs(S, parent) ==
  {d \in S : d.top["_class"] = ClsComment /\ d.top["attachedTo"] = parent}

SyncedIds(S, parent) ==
  {asMixin(d, BitrixSyncDoc)["bitrixId"] : d \in {x \in SubDocs(S, parent) : hasMixin(x, BitrixSyncDoc)}}

DocIdsFor(S, parent, r) ==
  {d.top["_id"] : d \in {x \in SubDocs(S, parent) :
                           hasMixin(x, BitrixSyncDoc) /\ asMixin(x, BitrixSyncDoc)["bitrixId"] = r}}

PendingIds(res) == {res.extraSync[i]["bitrixId"] : i \in 1..Len(res.extraSync)}

AttachmentTraitIds(S, parent) ==
  {asMixin(d, BitrixSyncDoc)["bitrixId"] :
     d \in {x \in S : x.top["_class"] = ClsAttachment /\ x.top["attachedTo"] = parent
                      /\ hasMixin(x, BitrixSyncDoc)}}

\* The pending attachments whose remote id no attachment of the primary carried
\* before the merge.
UnknownBlobIds ==
  {mrg.res.blobs[i].ed["bitrixId"] : i \in 1..Len(mrg.res.blobs)}
    \ AttachmentTraitIds(mrg.last.before, mrg.last.docId)

RangeOf(seq) == {seq[i] : i \in 1..Len(seq)}

ClassIn(S, id) == {d.top["_class"] : d \in DocsById(S, id)}

RewritesSyncTime(w) ==
  /\ w.op = "updateMixin" /\ w.id = mrg.last.docId /\ w.mixin = BitrixSyncDoc
  /\ w.keys = {"syncTime"}
  /\ \E d \in DocsById(mrg.last.before, w.id) : asMixin(d, BitrixSyncDoc)["syncTime"] < now

WritesOwnBitrixId(w) ==
  /\ w.op = "update" /\ w.keys = {"bitrixId"}
  /\ \E d \in DocsById(mrg.last.before, w.id) :
       /\ d.top["_class"] \in {ClsPrimary, ClsComment}
       /\ d.top["bitrixId"] = Undefined

RecreatesExtraDoc(w) ==
  /\ w.op = "createDoc"
  /\ \E i \in 1..Len(mrg.res.extraDocs) : mrg.res.extraDocs[i]["_id"] = w.id

OnUnknownAttachment(w) ==
  /\ UnknownBlobIds /= {}
  /\ \/ ClassIn(mrg.last.before, w.id) = {ClsAttachment}
     \/ /\ w.op \in {"addCollection", "createMixin"}
        /\ DocsById(mrg.last.before, w.id) = {}
        /\ ClassIn(store, w.id) = {ClsAttachment}

C3_AbortedMergeLeavesStore ==
  (mrg.last.kind = "merge" /\ ~mrg.last.committed) => store = mrg.last.before

\* C4 (as stated): after a committed merge the remote ids carried by the
\* primary's synced sub-documents are exactly those of the new fetch, the empty
\* fetch included.
C4_SubDocsEqualFetch ==
  JustCommitted => SyncedIds(store, mrg.last.docId) = PendingIds(mrg.res)

\* C5 (as stated): when the remote set shrinks, the sub-document of every
\* removed remote id is deleted and every surviving remote id keeps its local
\* sub-document.
C5_ShrinkDeletesAndKeeps ==
  (/\ JustCommitted
   /\ PendingIds(mrg.res) \subseteq SyncedIds(mrg.last.before, mrg.last.docId)
   /\ PendingIds(mrg.res) /= SyncedIds(mrg.last.before, mrg.last.docId))
  => \A r \in SyncedIds(mrg.last.before, mrg.last.docId) :
       IF r \in PendingIds(mrg.res)
         THEN DocIdsFor(store, mrg.last.docId, r) = DocIdsFor(mrg.last.before, mrg.last.docId, r)
         ELSE DocIdsFor(store, mrg.last.docId, r) = {}


----------------------------------------------------------------------------
(* SpecDiff: one call of updateDoc or updateMixin on arbitrary values       *)

DiffDataKeys == {"name", "tags"}
DiffKeys == SystemKeys \cup DiffDataKeys
DiffVals == {Undefined, Null, 1, 2, ObjBase + 1, ObjBase + 2}
DiffDocId == 1

diffTop(vals, changed) ==
  [k \in DiffKeys |-> IF k \in DiffDataKeys THEN vals[k] ELSE IF k = changed THEN 2 ELSE DiffDocId]

diffDoc(top, has, mvals) ==
  [top |-> top, has |-> has,
   mx |-> [m \in Mixins |->
             [k \in MKeys |-> IF m = BitrixSyncDoc /\ k \in DOMAIN mvals THEN mvals[k]
                              ELSE Undefined]]]

diffRawMixin(vals) == [k \in MKeys |-> IF k \in DOMAIN vals THEN vals[k] ELSE Undefined]

DiffInit ==
  /\ store = {}
  /\ now = 0
  /\ nextId = 1
  /\ mrg = MergeIdle
  /\ run = RunIdle
  /\ \/ \E dv \in [DiffDataKeys -> DiffVals], rv \in [DiffDataKeys -> DiffVals],
           sk \in SystemKeys \cup {"none"} :
          diff = [phase |-> "ready", kind |-> "doc",
                  doc |-> diffDoc(diffTop(dv, "none"), {}, <<>>),
                  raw |-> diffTop(rv, sk), ops |-> <<>>,
                  after |-> diffDoc(diffTop(dv, "none"), {}, <<>>)]
     \/ \E mv \in [{"type", "rawData"} -> DiffVals], rv \in [{"type", "rawData"} -> DiffVals],
           has \in SUBSET {BitrixSyncDoc} :
          diff = [phase |-> "ready", kind |-> "mixin",
                  doc |-> diffDoc(diffTop([k \in DiffDataKeys |-> 1], "none"), has,
                                  IF has = {} THEN <<>> ELSE mv),
                  raw |-> diffRawMixin(rv), ops |-> <<>>,
                  after |-> diffDoc(diffTop([k \in DiffDataKeys |-> 1], "none"), has,
                                    IF has = {} THEN <<>> ELSE mv)]

OnlyDoc(S) == CHOOSE d \in S : TRUE

CallUpdateDoc ==
  /\ diff.phase = "ready" /\ diff.kind = "doc"
  /\ LET ops == updateDocOps(diff.doc, diff.raw)
     IN diff' = [diff EXCEPT !.phase = "done", !.ops = ops,
                             !.after = OnlyDoc(ApplyOps({diff.doc}, ops))]
  /\ UNCHANGED <<store, now, nextId, mrg, run>>

CallUpdateMixin ==
  /\ diff.phase = "ready" /\ diff.kind = "mixin"
  /\ LET ops == updateMixinOps(diff.doc, diff.raw, BitrixSyncDoc)
     IN diff' = [diff EXCEPT !.phase = "done", !.ops = ops,
                             !.after = OnlyDoc(ApplyOps({diff.doc}, ops))]
  /\ UNCHANGED <<store, now, nextId, mrg, run>>

DiffNext == CallUpdateDoc \/ CallUpdateMixin

SpecDiff == DiffInit /\ [][DiffNext]_vars

\* The stored and the resulting values the call works on: the document's own
\* for updateDoc, the mixin's for updateMixin.
DiffStored == IF diff.kind = "doc" THEN diff.doc.top ELSE diff.doc.mx[BitrixSyncDoc]
DiffResult == IF diff.kind = "doc" THEN diff.after.top ELSE diff.after.mx[BitrixSyncDoc]
DiffWritten == UNION {diff.ops[i].keys : i \in 1..Len(diff.ops)}

\* The call took the diff path: updateDoc always does, updateMixin when the
\* document carries the mixin (otherwise it creates the mixin from the input).
OnDiffPath == diff.phase = "done" /\ (diff.kind = "doc" \/ BitrixSyncDoc \in diff.doc.has)

\* C6: the diff writes a field only if the incoming value is neither null nor
\* undefined and is not deep-equal to the stored one; a field whose incoming
\* value is null or undefined keeps its stored value; the system fields are
\* never written; every other field is left as it was.
C6_NullSafeDeepDiff ==
  OnDiffPath =>
    \A k \in DOMAIN diff.raw :
      /\ k \in DiffWritten =>
           /\ diff.raw[k] /= Null /\ diff.raw[k] /= Undefined
           /\ diff.raw[k] /= DiffStored[k]
           /\ k \notin SystemKeys
           /\ DiffResult[k] = diff.raw[k]
      /\ k \notin DiffWritten => DiffResult[k] = DiffStored[k]
      /\ diff.raw[k] \in {Null, Undefined} => DiffResult[k] = DiffStored[k]

\* C6 witness: an updateDoc call that writes one field, leaves a stored value
\* alone because the incoming one is null, and is handed a different _id.
C6_Witness ==
  /\ OnDiffPath /\ diff.kind = "doc"
  /\ DiffWritten = {"name"}
  /\ diff.raw["tags"] = Null /\ IsObject(diff.doc.top["tags"])
  /\ diff.raw["_id"] /= diff.doc.top["_id"]
  /\ diff.after.top["tags"] = diff.doc.top["tags"]


----------------------------------------------------------------------------
(* Spec: performSynchronization (417-453), doPerformSync (455-589) and      *)
(* performOrganizationContactSynchronization (591-625).                     *)
(*                                                                          *)
(* run.frames is the stack of doPerformSync calls: the run's own, and on    *)
(* top of it the one over the contacts of the organization being synced.    *)
(* run.ev describes what the loop did with the last record it handled, and  *)
(* run.listed counts the records the remote lists have returned so far.     *)

MaxRuns == 2
MaxFetches == 2
MaxPage == 2
MaxLimit == 2
MaxRecord == 2
MaxContact == 1
MaxWork == 3

RemoteIds == 1..MaxRecord
ContactRemoteIds == 1..MaxContact

defaultSyncPeriod == 86400000
ShortPeriod == 1
NestedLimit == 100

PagesOver(ids) == UNION {[1..n -> ids] : n \in 0..MaxPage}

NoEvent ==
  [kind |-> "none", id |-> 0, cause |-> "", counted |-> FALSE, slept |-> FALSE,
   monitored |-> FALSE, converted |-> FALSE, committed |-> FALSE, existed |-> FALSE,
   created |-> FALSE, commentsListed |-> FALSE]

NewFrame(cls, comments, limit, filter) ==
  [cls |-> cls, comments |-> comments, limit |-> limit, filter |-> filter, pc |-> "enter",
   processed |-> 0, added |-> 0, fetches |-> 0, toProcess |-> <<>>,
   existing |-> <<>>, syncTime |-> 0, next |-> Undefined, resultDocs |-> <<>>,
   cur |-> 0, contacts |-> <<>>]

\* The store an earlier run of the Contact mapping left: contact 1, synced at
\* time 0 (syncDocument on an empty store).
StoredContactId == 1
ContactStore ==
  syncDocument({}, <<>>, convertResult(StoredContactId, ClsContact, 1, 1, {}, FALSE, {}, 1,
                                       0, FALSE),
               0, 0, StoredContactId + 1).store

Init ==
  /\ now = 0
  /\ diff = DiffIdle
  /\ mrg = MergeIdle
  /\ \E company \in BOOLEAN, period \in {Undefined, ShortPeriod} :
       /\ run = [pc |-> "idle", company |-> company, period |-> period, limit |-> 0,
                 space |-> TRUE, frames |-> <<>>, runs |-> 0, returned |-> <<>>,
                 ev |-> NoEvent, listed |-> 0, ownerType |-> TRUE]
       /\ \/ store = {} /\ nextId = 1
          \/ company /\ store = ContactStore /\ nextId = StoredContactId + 1

Depth == Len(run.frames)
Top == run.frames[Depth]
InFrame(pc) == run.pc = "sync" /\ Depth > 0 /\ Top.pc = pc

SetTop(f, ev) == run' = [run EXCEPT !.frames[Depth] = f, !.ev = ev]

\* The caller starts a run: performSynchronization(ops).
StartRun ==
  /\ run.pc \in {"idle", "returned", "rejected"}
  /\ run.runs < MaxRuns
  /\ \E limit \in 1..MaxLimit, space \in BOOLEAN :
       run' = [run EXCEPT !.pc = "prologue", !.limit = limit, !.space = space,
                          !.runs = @ + 1, !.returned = <<>>, !.ev = NoEvent]
  /\ UNCHANGED <<store, now, nextId, diff, mrg>>

\* 418-443: the metadata calls, the store queries and synchronizeUsers run
\* outside any try block; when one raises, performSynchronization rejects.
\* The owner types the remote reports (420-422) hold an entry for the
\* mapping's entity type or none.
Prologue ==
  /\ run.pc = "prologue"
  /\ \/ \E ownerType \in BOOLEAN :
          run' = [run EXCEPT !.pc = "sync", !.ownerType = ownerType,
                             !.frames = <<NewFrame(ClsPrimary, TRUE, run.limit, 0)>>]
     \/ run' = [run EXCEPT !.pc = "rejected"]
  /\ UNCHANGED <<store, now, nextId, diff, mrg>>

\* 458-468: the guard on the space and the field mapping, and the first query.
Enter ==
  /\ InFrame("enter")
  /\ \/ /\ run.space
        /\ SetTop([Top EXCEPT !.pc = "fetch"], run.ev)
     \/ /\ ~run.space
        /\ SetTop([Top EXCEPT !.pc = "return"], run.ev)
     \/ /\ run.space
        /\ SetTop([Top EXCEPT !.pc = "return"], run.ev)
  /\ UNCHANGED <<store, now, nextId, diff, mrg>>

idsOfFrame(f) == IF f.cls = ClsPrimary THEN RemoteIds ELSE ContactRemoteIds

\* 486-488: the documents of the mapping's class whose trait holds one of the
\* page's ids.
snapshot(S, cls, page) ==
  SeqOfDocs({d \in S : /\ d.top["_class"] = cls
                       /\ hasMixin(d, BitrixSyncDoc)
                       /\ asMixin(d, BitrixSyncDoc)["bitrixId"] \in RangeOf(page)})

\* 470-492: the loop's test, the list call and the snapshot of the existing
\* documents.  A call that raises is caught at 585.
FetchPage ==
  /\ InFrame("fetch")
  /\ \/ /\ Top.added < Top.limit
        /\ \E page \in PagesOver(idsOfFrame(Top)), more \in BOOLEAN :
             /\ run.listed + Len(page) <= MaxWork
             /\ more => (Top.fetches + 1 < MaxFetches /\ page /= <<>> /\ Depth = 1)
             /\ run' = [run EXCEPT
                          !.frames[Depth] =
                             [Top EXCEPT !.pc = "records",
                                         !.toProcess = page,
                                         !.existing = snapshot(store, Top.cls, page),
                                         !.syncTime = now,
                                         !.next = IF more THEN Top.processed + Len(page)
                                                  ELSE Undefined,
                                         !.fetches = @ + 1],
                          !.listed = @ + Len(page)]
     \/ /\ Top.added < Top.limit
        /\ SetTop([Top EXCEPT !.pc = "return"], run.ev)
     \/ /\ ~(Top.added < Top.limit)
        /\ SetTop([Top EXCEPT !.pc = "return"], run.ev)
  /\ UNCHANGED <<store, now, nextId, diff, mrg>>

periodOf(p) == IF p = Undefined THEN defaultSyncPeriod ELSE p

\* 503: the record was synced less than a period before the page's sync time.

isSuppressed(st, period, syncTime) == st /= Undefined /\ st + periodOf(period) > syncTime

HeadExisting == findExisting(Top.existing, Head(Top.toProcess))

HeadSuppressed ==
  /\ HeadExisting /= <<>>
  /\ isSuppressed(asMixin(HeadExisting[1], BitrixSyncDoc)["syncTime"], run.period, Top.syncTime)

afterCount(f) == IF f.added >= f.limit THEN "pageDone" ELSE "records"

\* 501-513: the suppressed record is dropped from the page and counted.
Suppress ==
  /\ InFrame("records") /\ Top.toProcess /= <<>>
  /\ HeadSuppressed
  /\ LET f == [Top EXCEPT !.toProcess = Tail(@), !.added = @ + 1]
     IN SetTop([f EXCEPT !.pc = afterCount(f)],
               [NoEvent EXCEPT !.kind = "suppressed", !.id = Head(Top.toProcess),
                               !.counted = TRUE, !.monitored = TRUE, !.existed = TRUE])
  /\ UNCHANGED <<store, now, nextId, diff, mrg>>

\* The owner type never looked for.
ownerTypeIgnored(comments, ownerType) == FALSE

\* 645-649: downloadComments finds no owner type for the mapping's entity type.
noOwnerType(comments, ownerType) == comments /\ ~ownerType

\* 515-531 and 569-576: convert raises, or downloadComments does, for want of
\* an owner type (648) or in the call that lists the comments and after it
\* (650-709); the loop logs, sleeps and drops the record.
ConvertFails ==
  /\ InFrame("records") /\ Top.toProcess /= <<>>
  /\ ~HeadSuppressed
  /\ \E cause \in {"convert"}
                  \cup (IF noOwnerType(Top.comments, run.ownerType) THEN {"owner"}
                        ELSE IF Top.comments THEN {"comments"} ELSE {}) :
       SetTop([Top EXCEPT !.toProcess = Tail(@)],
              [NoEvent EXCEPT !.kind = "failed", !.id = Head(Top.toProcess), !.cause = cause,
                              !.slept = TRUE, !.converted = TRUE,
                              !.existed = HeadExisting /= <<>>,
                              !.commentsListed = cause = "comments"])
  /\ UNCHANGED <<store, now, nextId, diff, mrg>>

replaceLocal(docs, local) ==
  IF local = <<>> THEN docs
  ELSE [i \in 1..Len(docs) |->
          IF docs[i].top["_id"] = local[1].top["_id"] THEN local[1] ELSE docs[i]]

\* 516-531: the converted record: its document with a fresh _id and its trait;
\* the comments and files of a record are the subject of SpecMerge.
recordResult(genId, cls, bid) ==
  convertResult(genId, cls, bid, 1, {}, FALSE, {}, 1, 0, FALSE)

HasOp(writes, op, id) == \E i \in 1..Len(writes) : writes[i].op = op /\ writes[i].id = id

\* 515-568: the record is converted, counted and merged; syncDocument catches
\* what the merge raises (227).  For an organization the loop over its contacts
\* starts (549-563); otherwise the limit is tested and the record dropped.
MergeRecord ==
  /\ InFrame("records") /\ Top.toProcess /= <<>>
  /\ ~HeadSuppressed
  /\ ~noOwnerType(Top.comments, run.ownerType)
  /\ \E failAt \in FailPoints, id \in {Head(Top.toProcess)}, ex \in {HeadExisting} :
     \E r \in {syncDocument(store, ex, recordResult(nextId, Top.cls, id), failAt, now,
                            nextId + 1)} :
     \E docId \in {r.document["_id"]} :
     \E f \in {[Top EXCEPT !.added = @ + 1,
                           !.existing = replaceLocal(@, r.local),
                           !.resultDocs = Append(@, [id |-> docId, bitrixId |-> id]),
                           !.cur = IF run.company /\ Top.cls = ClsPrimary THEN docId ELSE 0]},
        ev \in {[NoEvent EXCEPT !.kind = "merged", !.id = id,
                                !.cause = IF r.committed THEN "" ELSE "merge",
                                !.counted = TRUE, !.monitored = TRUE, !.converted = TRUE,
                                !.committed = r.committed, !.existed = ex /= <<>>,
                                !.created = HasOp(r.writes, "createDoc", docId),
                                !.commentsListed = Top.comments]} :
       /\ store' = r.store
       /\ nextId' = r.nid
       /\ IF run.company /\ Top.cls = ClsPrimary
            THEN run' = [run EXCEPT
                           !.frames = [@ EXCEPT ![Depth] = [f EXCEPT !.pc = "nested"]]
                                      \o <<NewFrame(ClsContact, FALSE, NestedLimit, id)>>,
                           !.ev = ev]
            ELSE SetTop([f EXCEPT !.pc = afterCount(f),
                                  !.toProcess = IF f.added >= f.limit THEN @ ELSE Tail(@)],
                        ev)
  /\ UNCHANGED <<now, diff, mrg>>

\* 579-583: the cursor moves to the page's `next`; without one the loop ends.
PageDone ==
  /\ \/ InFrame("pageDone")
     \/ InFrame("records") /\ Top.toProcess = <<>>
  /\ SetTop([Top EXCEPT !.processed = Top.next, !.toProcess = <<>>, !.existing = <<>>,
                        !.syncTime = 0, !.next = Undefined,
                        !.pc = IF Top.next = Undefined THEN "return" ELSE "fetch"], run.ev)
  /\ UNCHANGED <<store, now, nextId, diff, mrg>>

\* 588: doPerformSync returns resultDocs, to the caller of the run or to
\* performOrganizationContactSynchronization (597).
Return ==
  /\ InFrame("return")
  /\ IF Depth = 1
       THEN run' = [run EXCEPT !.pc = "returned", !.frames = <<>>,
                               !.returned = Top.resultDocs]
       ELSE run' = [run EXCEPT
                      !.frames = [i \in 1..(Depth - 1) |->
                                    IF i = Depth - 1
                                      THEN [run.frames[i] EXCEPT !.pc = "link",
                                                                 !.contacts = Top.resultDocs]
                                      ELSE run.frames[i]]]
  /\ UNCHANGED <<store, now, nextId, diff, mrg>>

memberTop(id, parent, c) ==
  [BlankTop EXCEPT !["_id"] = id, !["_class"] = ClsMember, !["attachedTo"] = parent,
                   !["contact"] = c]

\* 604-622: a Member for every returned contact that the query did not find.
RECURSIVE memberOps(_, _, _, _)
memberOps(contacts, found, parent, nid) ==
  IF contacts = <<>> THEN <<>>
  ELSE IF Head(contacts).id \in found THEN memberOps(Tail(contacts), found, parent, nid)
       ELSE <<Op("addCollection", nid, "", memberTop(nid, parent, Head(contacts).id), DocKeys)>>
            \o memberOps(Tail(contacts), found, parent, nid + 1)

\* 604-622 and 566-576: the contacts are linked to the organization; then the
\* limit is tested and the record dropped.  A raising query (k = 0) or
\* addCollection (after k Members were added) is caught at 569: the loop sleeps
\* and drops the record, and the test of the limit at 566 is not reached.
LinkContacts ==
  /\ InFrame("link")
  /\ LET found == {d.top["contact"] :
                     d \in {m \in store : /\ m.top["_class"] = ClsMember
                                          /\ m.top["attachedTo"] = Top.cur
                                          /\ m.top["contact"] \in
                                               {x.id : x \in RangeOf(Top.contacts)}}}
         ops == memberOps(Top.contacts, found, Top.cur, nextId)
     IN \/ /\ store' = ApplyOps(store, ops)
           /\ nextId' = nextId + Len(ops)
           /\ SetTop([Top EXCEPT !.pc = afterCount(Top), !.contacts = <<>>, !.cur = 0,
                                 !.toProcess = IF Top.added >= Top.limit THEN @ ELSE Tail(@)],
                     [run.ev EXCEPT !.kind = "linked"])
        \/ \E k \in 0..Len(ops) :
             /\ k = Len(ops) => k = 0
             /\ store' = ApplyOps(store, SubSeq(ops, 1, k))
             /\ nextId' = nextId + k
             /\ SetTop([Top EXCEPT !.pc = "records", !.contacts = <<>>, !.cur = 0,
                                   !.toProcess = Tail(@)],
                       [run.ev EXCEPT !.kind = "failed", !.cause = "link", !.slept = TRUE])
  /\ UNCHANGED <<now, diff, mrg>>

\* Time passes.
Clock ==
  /\ run.pc /= "off"
  /\ now < MaxTime
  /\ now' = now + 1
  /\ UNCHANGED <<store, nextId, diff, mrg, run>>

Next ==
  \/ StartRun \/ Prologue \/ Enter \/ FetchPage \/ Suppress \/ ConvertFails
  \/ MergeRecord \/ PageDone \/ Return \/ LinkContacts \/ Clock

Spec == Init /\ [][Next]_vars


----------------------------------------------------------------------------
(* Properties of the run, under Spec *)

PrimariesOf(S, r) ==
  {d \in S : /\ d.top["_class"] = ClsPrimary
             /\ hasMixin(d, BitrixSyncDoc)
             /\ asMixin(d, BitrixSyncDoc)["bitrixId"] = r}

\* The loop is about to handle the first record of the page.
AtRecord == InFrame("records") /\ Top.toProcess /= <<>>

\* A step of the loop on that record (time passing is not one).
RecordStep == AtRecord /\ run' /= run

\* C1: for every remote id the store holds at most one primary document of the
\* mapping's class whose sync trait carries it, after any runs and pages.
C1_OnePrimaryPerRemoteId ==
  \A r \in RemoteIds : Cardinality(PrimariesOf(store, r)) <= 1

\* The documents of class cls that the store holds for remote id r.
TargetsOf(S, cls, r) ==
  {d \in S : /\ d.top["_class"] = cls
             /\ hasMixin(d, BitrixSyncDoc)
             /\ asMixin(d, BitrixSyncDoc)["bitrixId"] = r}

\* d was synced less than a sync period (24 h unless the options give one)
\* before the page's sync time.
Fresh(d) ==
  /\ asMixin(d, BitrixSyncDoc)["syncTime"] /= Undefined
  /\ asMixin(d, BitrixSyncDoc)["syncTime"]
       + (IF run.period = Undefined THEN defaultSyncPeriod ELSE run.period) > Top.syncTime

\* The record at the head of the page has a local match inside its window.
InWindow ==
  /\ AtRecord
  /\ \E d \in TargetsOf(store, Top.cls, Head(Top.toProcess)) : Fresh(d)

\* The same, of the match the lookup at 498-500 returns.
FoundInWindow == AtRecord /\ HeadExisting /= <<>> /\ Fresh(HeadExisting[1])

Stopping == run.pc = "sync" /\ Depth > 0 /\ Top.added >= Top.limit
            /\ Top.pc \in {"pageDone", "fetch"}

\* C7: a record inside its suppression window is neither converted nor merged
\* and nothing is written for it, yet it is counted and reported; and once the
\* count has reached the limit the loop handles no further record and fetches
\* no further page.
C7_SuppressionWindow ==
  [][/\ (InWindow /\ run' /= run) =>
          /\ store' = store /\ nextId' = nextId
          /\ run'.ev.kind = "suppressed" /\ run'.ev.id = Head(Top.toProcess)
          /\ ~run'.ev.converted /\ run'.ev.counted /\ run'.ev.monitored
          /\ run'.frames[Depth].added = Top.added + 1
          /\ run'.frames[Depth].resultDocs = Top.resultDocs
          /\ run'.frames[Depth].added >= Top.limit => run'.frames[Depth].pc = "pageDone"
     /\ (Stopping /\ run' /= run) =>
          /\ store' = store
          /\ \/ run'.pc = "returned"
             \/ /\ Len(run'.frames) = Depth
                /\ run'.frames[Depth].pc \in {"fetch", "return"}
                /\ run'.frames[Depth].fetches = Top.fetches
             \/ Len(run'.frames) < Depth]_vars

\* C8: a record whose conversion, comment download or merge raised is not
\* counted as accepted, and the loop slept its backoff before moving on.
C8_FailedRecordNotAccepted ==
  run.ev.cause \in {"convert", "owner", "comments", "merge"} =>
    (~run.ev.counted /\ run.ev.slept)

\* C9: a page is fetched only while the count is below the limit, the first
\* from 0 and every further one from the cursor the previous page gave; and no
\* record is handled once the count has reached the limit.
C9_LoopTermination ==
  [][/\ (InFrame("fetch") /\ Len(run'.frames) = Depth
           /\ run'.frames[Depth].fetches = Top.fetches + 1) =>
          /\ Top.added < Top.limit
          /\ Top.fetches = 0 => Top.processed = 0
          /\ Top.fetches > 0 => Top.processed /= Undefined
     /\ RecordStep => Top.added < Top.limit]_vars

\* C10: performSynchronization never rejects.
C10_NeverRejects == run.pc /= "rejected"

TargetIds(S, cls, r) ==
  {d.top["_id"] : d \in {x \in S : /\ x.top["_class"] = cls
                                   /\ hasMixin(x, BitrixSyncDoc)
                                   /\ asMixin(x, BitrixSyncDoc)["bitrixId"] = r}}

LastOf(q) == q[Len(q)]

\* The step merged the record at the head of the page and the merge committed.
MergedStep == RecordStep /\ run'.ev.kind = "merged" /\ run'.ev.committed

\* C11: when the record already has a document of the mapping's class, a
\* committed merge of it leaves that document's identity as it was, and the
\* document put on the result list carries that identity.
C11_IdentityStable ==
  [][(MergedStep /\ TargetIds(store, Top.cls, Head(Top.toProcess)) /= {}) =>
       /\ TargetIds(store', Top.cls, Head(Top.toProcess))
            = TargetIds(store, Top.cls, Head(Top.toProcess))
       /\ LastOf(run'.frames[Depth].resultDocs).id
            \in TargetIds(store, Top.cls, Head(Top.toProcess))]_vars


----------------------------------------------------------------------------
(* SpecFiles: one merge of a record with pending files, against a store     *)
(* that holds the record's primary with some attachments, or nothing.       *)

MaxPending == 2
MaxStored == 2

FilePrimaryId == 1
FirstStoredId == 10
FirstBlobRef == 20
FirstFreshId == 30

\* An attachment of the primary as an earlier merge (bid a remote id) or a
\* user (bid Undefined: no trait) left it.
storedAttachmentOps(i, name, size, bid) ==
  IF bid = Undefined
    THEN <<Op("addCollection", FirstStoredId + i, "",
              [attachmentTop(FirstStoredId + i, FilePrimaryId, Undefined)
                 EXCEPT !["name"] = name, !["size"] = size, !["file"] = FirstBlobRef + i],
              DocKeys)>>
    ELSE updateAttachedDocOps(<<>>,
           [attachmentTop(FirstStoredId + i, FilePrimaryId, bid)
              EXCEPT !["name"] = name, !["size"] = size, !["file"] = FirstBlobRef + i])

RECURSIVE storedOps(_, _, _, _)
storedOps(names, sizes, bids, i) ==
  IF i > Len(names) THEN <<>>
  ELSE storedAttachmentOps(i, names[i], sizes[i], bids[i])
       \o storedOps(names, sizes, bids, i + 1)

\* A comment a user wrote on the primary: it carries no sync trait.
LocalCommentId == 19
localCommentOps(present) ==
  IF present
    THEN <<Op("addCollection", LocalCommentId, "",
              commentTop(LocalCommentId, FilePrimaryId, Undefined, 1), DocKeys)>>
    ELSE <<>>

\* The file the loader returns carries its own name (699, 701-706).
withNames(res, names) ==
  [res EXCEPT !.blobs = [i \in 1..Len(res.blobs) |->
     [res.blobs[i] EXCEPT !.load.name = names[i]]]]

FilesInit ==
  /\ now = 0
  /\ nextId = FirstFreshId + MaxPending + 2
  /\ diff = DiffIdle
  /\ run = RunIdle
  /\ \E nb \in 1..MaxPending, cs \in {{}, {1}} :
       mrg = [MergeIdle EXCEPT
                !.res = convertResult(FirstFreshId, ClsPrimary, RecordId, 1, {}, FALSE, cs, 1,
                                      nb, FALSE),
                !.has = TRUE]
  /\ \/ store = {}
     \/ \E n \in 0..MaxStored :
        \E names \in [1..n -> Names], sizes \in [1..n -> Sizes],
           bids \in [1..n -> {Undefined, 1, MaxPending + 1}], local \in BOOLEAN :
          store = ApplyOps(
                    syncDocument({}, <<>>, recordResult(FilePrimaryId, ClsPrimary, RecordId),
                                 0, 0, FilePrimaryId + 1).store,
                    storedOps(names, sizes, bids, 1) \o localCommentOps(local))

\* syncDocument on the input, each file loading and uploading one way or another.
MergeFiles ==
  /\ mrg.has
  /\ mrg.merges = 0
  /\ \E failAt \in FailPoints, outs \in [1..Len(mrg.res.blobs) -> Outcomes],
        names \in [1..Len(mrg.res.blobs) -> Names] :
     \E res \in {withNames(withOutcomes(mrg.res, outs), names)},
        ex \in {findExisting(findByClass(store, ClsPrimary), RecordId)} :
     \E r \in {syncDocument(store, ex, res, failAt, now, nextId)} :
       /\ store' = r.store
       /\ nextId' = r.nid
       /\ mrg' = [mrg EXCEPT
                    !.res = res,
                    !.seq = IF r.committed THEN 1 ELSE 0,
                    !.merges = 1,
                    !.last = [kind |-> "merge", committed |-> r.committed,
                              writes |-> r.writes,
                              uploads |-> r.uploads, loads |-> r.loads,
                              before |-> store, docId |-> r.document["_id"],
                              failAt |-> failAt]]
  /\ UNCHANGED <<now, diff, run>>

FilesNext == MergeFiles

SpecFiles == FilesInit /\ [][FilesNext]_vars

AttachmentsOf(S, parent) ==
  {d \in S : d.top["_class"] = ClsAttachment /\ d.top["attachedTo"] = parent}

Loaded(i) == mrg.res.blobs[i].load.st = "ok"

SameFile(i, j) ==
  /\ mrg.res.blobs[i].load.name = mrg.res.blobs[j].load.name
  /\ mrg.res.blobs[i].load.size = mrg.res.blobs[j].load.size
  /\ mrg.res.blobs[i].load.type = mrg.res.blobs[j].load.type

\* C12: two pending files with the same name, size and type and distinct
\* remote ids, nothing stored that matches either: one merge uploads once and
\* the primary ends with one attachment.
C12_OneUploadForEqualFiles ==
  (/\ JustCommitted
   /\ Len(mrg.res.blobs) = 2
   /\ Loaded(1) /\ Loaded(2) /\ SameFile(1, 2)
   /\ mrg.res.blobs[1].up = "200" /\ mrg.res.blobs[2].up = "200"
   /\ AttachmentsOf(mrg.last.before, mrg.last.docId) = {})
  => /\ Len(mrg.last.uploads) = 1
     /\ Cardinality(AttachmentsOf(store, mrg.last.docId)) = 1


----------------------------------------------------------------------------
(* SpecComment: processComment (334-382) on a comment text.                 *)
(*                                                                          *)
(* A text is a sequence of pieces: "nl" is the newline, "[" and "]" the     *)
(* brackets, every other piece a run of characters without newline or       *)
(* bracket.  "URL=", "/URL", "TABLE" and "/TABLE" are the tag names the     *)
(* function tests for, "b" a tag name it does not know, "text" any other    *)
(* run (a word, an address).  The inputs hold no FONT, SIZE, COLOR or IMG.  *)

MaxCommentLen == 4

Pieces == {"text", "nl", "[", "]", "URL=", "/URL", "b", "TABLE", "/TABLE"}

Brackets == {"[", "]"}

\* comment.replaceAll('\n', '\n</br>') (335)
RECURSIVE replaceNewlines(_)
replaceNewlines(text) ==
  IF text = <<>> THEN <<>>
  ELSE (IF Head(text) = "nl" THEN <<"nl", "</br>">> ELSE <<Head(text)>>)
       \o replaceNewlines(Tail(text))

\* The length of the longest run without a bracket at the head of text.
RECURSIVE runLength(_)
runLength(text) ==
  IF text = <<>> \/ Head(text) \in Brackets THEN 0 ELSE 1 + runLength(Tail(text))

\* The replacer (336-380), args being what the brackets enclose.
replaceTag(args) ==
  IF Head(args) = "/URL" THEN <<"</a>">>
  ELSE IF Head(args) = "URL=" THEN <<"<a href=QUOTE">> \o Tail(args) \o <<"QUOTE>">>
  ELSE IF \E i \in 1..Len(args) : args[i] = "/TABLE" THEN <<"</table>">>
  ELSE IF \E i \in 1..Len(args) : args[i] = "TABLE" THEN <<"<table>">>
  ELSE <<"<">> \o args \o <<">">>

\* replaceAll with /\[(\/?[^[\]]+)]/gi (336): from the left, every "[" that a
\* non-empty run without brackets and then a "]" follow.
RECURSIVE replaceTags(_)
replaceTags(text) ==
  IF text = <<>> THEN <<>>
  ELSE LET n == runLength(Tail(text))
       IN IF /\ Head(text) = "["
             /\ n > 0
             /\ Len(text) >= n + 2
             /\ text[n + 2] = "]"
            THEN replaceTag(SubSeq(text, 2, n + 1)) \o replaceTags(SubSeq(text, n + 3, Len(text)))
            ELSE <<Head(text)>> \o replaceTags(Tail(text))

processComment(comment) == replaceTags(replaceNewlines(comment))

\* Hello[URL=http://x]click[/URL]<newline>world
ExampleComment ==
  <<"text", "[", "URL=", "text", "]", "text", "[", "/URL", "]", "nl", "text">>

CommentInputs == UNION {[1..n -> Pieces] : n \in 0..MaxCommentLen} \cup {ExampleComment}

CommentInit ==
  /\ store = {}
  /\ now = 0
  /\ nextId = 1
  /\ mrg = MergeIdle
  /\ run = RunIdle
  /\ \E input \in CommentInputs : diff = [phase |-> "ready", input |-> input, output |-> <<>>]

CallProcessComment ==
  /\ diff.phase = "ready"
  /\ diff' = [diff EXCEPT !.phase = "done", !.output = processComment(diff.input)]
  /\ UNCHANGED <<store, now, nextId, mrg, run>>

CommentNext == CallProcessComment

SpecComment == CommentInit /\ [][CommentNext]_vars

NoBrackets(text) == \A i \in 1..Len(text) : text[i] \notin Brackets

RECURSIVE breakThenNewline(_)
breakThenNewline(text) ==
  IF text = <<>> THEN <<>>
  ELSE (IF Head(text) = "nl" THEN <<"</br>", "nl">> ELSE <<Head(text)>>)
       \o breakThenNewline(Tail(text))

\* C13: every newline becomes the line-break tag followed by the newline,
\* [URL=t] and [/URL] become an anchor, so that the example yields
\* Hello<a href="http://x">click</a></br><newline>world; a tag that is none
\* of the known ones comes out as the same tag in angle brackets.
C13_MarkupTranslation ==
  diff.phase = "done" =>
    /\ NoBrackets(diff.input) => diff.output = breakThenNewline(diff.input)
    /\ diff.input = ExampleComment =>
         diff.output = <<"text", "<a href=QUOTE", "text", "QUOTE>", "text", "</a>",
                         "</br>", "nl", "text">>
    /\ diff.input = <<"[", "b", "]">> => diff.output = <<"<", "b", ">">>


----------------------------------------------------------------------------
(* Properties of the files of a record, under SpecMerge and SpecFiles *)

\* The attachments, of whatever parent, whose trait carries remote id b.
AttachmentsFor(S, b) ==
  {d \in S : /\ d.top["_class"] = ClsAttachment
             /\ hasMixin(d, BitrixSyncDoc)
             /\ asMixin(d, BitrixSyncDoc)["bitrixId"] = b}

BlobIds(res) == {res.blobs[i].ed["bitrixId"] : i \in 1..Len(res.blobs)}

\* C14: a remote file whose attachment record an earlier merge left in the
\* store is not loaded, not uploaded and its record not written again.
C14_FilesSyncedOnce ==
  mrg.last.kind = "merge" =>
    \A b \in BlobIds(mrg.res) :
      AttachmentsFor(mrg.last.before, b) /= {} =>
        /\ b \notin RangeOf(mrg.last.loads)
        /\ b \notin RangeOf(mrg.last.uploads)
        /\ AttachmentsFor(store, b) = AttachmentsFor(mrg.last.before, b)


----------------------------------------------------------------------------
(* Further properties of the run, under Spec *)

\* C15: every document in the list performSynchronization returns is in the
\* store, of the mapping's class, with the sync trait carrying its remote id.
C15_ReturnedDocsAreSynced ==
  run.pc = "returned" =>
    \A i \in 1..Len(run.returned) :
      run.returned[i].id \in TargetIds(store, ClsPrimary, run.returned[i].bitrixId)

SyncTimes(S, cls, id) ==
  {asMixin(d, BitrixSyncDoc)["syncTime"] : d \in {x \in S : x.top["_class"] = cls /\ x.top["_id"] = id}}

\* C16: a committed merge stamps the merge time into the record's trait; a
\* record reached inside the window of its stored trait is suppressed; one
\* reached at or after the end of the window is converted again and a
\* committed merge advances the stamp; a merge that did not commit leaves the
\* record's documents and their stamps as they were.
C16_RecordLifeCycle ==
  [][RecordStep =>
       /\ MergedStep =>
            SyncTimes(store', Top.cls, LastOf(run'.frames[Depth].resultDocs).id) = {now}
       /\ InWindow => run'.ev.kind = "suppressed"
       /\ (/\ TargetsOf(store, Top.cls, Head(Top.toProcess)) /= {}
           /\ ~InWindow) =>
            /\ run'.ev.kind /= "suppressed" /\ run'.ev.converted
            /\ MergedStep =>
                 \A d \in TargetsOf(store, Top.cls, Head(Top.toProcess)) :
                   d.top["_id"] = LastOf(run'.frames[Depth].resultDocs).id =>
                     asMixin(d, BitrixSyncDoc)["syncTime"] < now
       /\ (run'.ev.kind = "merged" /\ ~run'.ev.committed) =>
            TargetsOf(store', Top.cls, Head(Top.toProcess))
              = TargetsOf(store, Top.cls, Head(Top.toProcess))]_vars

\* The Member sub-documents of organization org that reference contact c.
MembersOf(S, org, c) ==
  {m \in S : /\ m.top["_class"] = ClsMember
             /\ m.top["attachedTo"] = org
             /\ m.top["contact"] = c}

\* C17: no stored organization ever holds two Members referencing one contact,
\* and when the contacts of a synced organization record have been linked
\* every contact the nested sync returned has exactly one Member of it.
C17_MembershipCreateIfAbsent ==
  [][/\ \A m \in {x \in store' : x.top["_class"] = ClsMember} :
          m.top["attachedTo"] \in {d.top["_id"] : d \in {x \in store' : x.top["_class"] = ClsPrimary}} =>
            Cardinality(MembersOf(store', m.top["attachedTo"], m.top["contact"])) = 1
     /\ (InFrame("link") /\ run'.ev.kind = "linked") =>
          \A i \in 1..Len(Top.contacts) :
            Cardinality(MembersOf(store', Top.cur, Top.contacts[i].id)) = 1]_vars

\* C18: with comments enabled and no owner type for the mapping's entity type,
\* a record that reaches downloadComments fails before the comments are
\* listed: nothing is merged or written, the count stays, and the loop goes
\* on with the rest of the page.
C18_NoOwnerTypeAbortsRecord ==
  [][(/\ RecordStep
      /\ Top.comments /\ ~run.ownerType
      /\ ~FoundInWindow
      /\ run'.ev.cause /= "convert") =>
       /\ run'.ev.kind = "failed" /\ run'.ev.cause = "owner"
       /\ ~run'.ev.commentsListed /\ ~run'.ev.counted
       /\ store' = store /\ nextId' = nextId
       /\ Len(run'.frames) = Depth
       /\ run'.frames[Depth] = [Top EXCEPT !.toProcess = Tail(@)]]_vars

\* A record was dropped for want of an owner type and the page has another.
C18_Witness ==
  /\ run.ev.cause = "owner"
  /\ AtRecord

----------------------------------------------------------------------------
(* SpecUsers: synchronizeUsers (755-797) against a remote user directory.   *)
(*                                                                          *)
(* The directory lists its users by ascending id, UserPageSize to a page.   *)
(* It may change between two calls: a user that did not exist yet appears,  *)
(* a user that exists is deleted; an id is never used again.  Every user    *)
(* carries an e-mail, which another user may carry too.  A call without a   *)
(* cursor lists from the start.                                             *)

MaxUsers == 3
UserPageSize == 2
MaxEmail == 2
FirstAccountId == 10

UserIds == 1..MaxUsers
Emails == 1..MaxEmail
ClsEmployee == 7          \* contact.class.Employee
ClsEmployeeAccount == 8   \* contact.class.EmployeeAccount

accountDoc(id, email, employee) ==
  [_id |-> id, _class |-> ClsEmployeeAccount, email |-> email, employee |-> employee]
employeeDoc(id) ==
  [_id |-> id, _class |-> ClsEmployee, email |-> Undefined, employee |-> Undefined]

\* The users the directory holds, by ascending id.
presentUsers(dir) == SetToSeq({u \in UserIds : dir[u] = "present"})

\* user.search from `start`: the page, the cursor of the next one, the total.
userSearch(dir, start) ==
  LET all == presentUsers(dir)
      from == IF start = Undefined THEN 0 ELSE start
      upto == IF from + UserPageSize < Len(all) THEN from + UserPageSize ELSE Len(all)
  IN [result |-> SubSeq(all, from + 1, upto),
      next |-> IF from + UserPageSize < Len(all) THEN from + UserPageSize ELSE Undefined,
      total |-> Len(all)]

\* 777-795: every user of the page gets its account in the map; a user whose
\* e-mail no account of allEmployee has gets a new Employee and a new account.
RECURSIVE mapUsers(_, _, _, _, _, _)
mapUsers(users, email, allEmployee, S, userList, nid) ==
  IF users = <<>> THEN [store |-> S, userList |-> userList, nid |-> nid]
  ELSE LET u == Head(users)
           known == {a \in allEmployee : a.email = email[u]}
       IN IF known /= {}
            THEN mapUsers(Tail(users), email, allEmployee, S,
                          [userList EXCEPT ![u] = (CHOOSE a \in known : TRUE)._id], nid)
            ELSE mapUsers(Tail(users), email, allEmployee,
                          S \cup {employeeDoc(nid), accountDoc(nid + 1, email[u], nid)},
                          [userList EXCEPT ![u] = nid + 1], nid + 2)

\* The map taken for empty.
mapSizeZero(userList) == 0

\* 773: userList.size.
mapSize(userList) == Cardinality({u \in UserIds : userList[u] /= Undefined})

UsersInit ==
  /\ now = 0
  /\ nextId = FirstAccountId + MaxEmail + 1
  /\ diff = DiffIdle
  /\ mrg = MergeIdle
  /\ \E emails \in SUBSET Emails, dir \in [UserIds -> {"future", "present"}],
        email \in [UserIds -> Emails] :
       /\ store = {accountDoc(FirstAccountId + e, e, Undefined) : e \in emails}
       /\ run = [pc |-> "loop", dir |-> dir, email |-> email, allEmployee |-> store,
                 userList |-> [u \in UserIds |-> Undefined],
                 totalUsers |-> 1, next |-> 0, start |-> Undefined, calls |-> 0]

\* 773-796: one turn of the loop, or a call that raises after k users of the
\* page were handled (k = 0: user.search itself raised).
SearchUsers ==
  /\ run.pc = "loop"
  /\ mapSize(run.userList) < run.totalUsers
  /\ \E users \in {userSearch(run.dir, run.next)} :
       \/ \E r \in {mapUsers(users.result, run.email, run.allEmployee, store, run.userList,
                                  nextId)} :
            /\ store' = r.store
            /\ nextId' = r.nid
            /\ run' = [run EXCEPT !.userList = r.userList, !.next = users.next,
                                  !.totalUsers = users.total, !.start = run.next,
                                  !.calls = IF @ < 2 THEN @ + 1 ELSE @]
       \/ \E k \in 0..Len(users.result) :
            /\ k < Len(users.result) \/ k = 0
            /\ \E r \in {mapUsers(SubSeq(users.result, 1, k), run.email, run.allEmployee,
                                  store, run.userList, nextId)} :
                 /\ store' = r.store
                 /\ nextId' = r.nid
                 /\ run' = [run EXCEPT !.pc = "rejected", !.userList = r.userList]
  /\ UNCHANGED <<now, diff, mrg>>

\* 773: the map has reached the total; synchronizeUsers returns.
UsersDone ==
  /\ run.pc = "loop"
  /\ mapSize(run.userList) >= run.totalUsers
  /\ run' = [run EXCEPT !.pc = "done"]
  /\ UNCHANGED <<store, now, nextId, diff, mrg>>

\* The remote directory changes while the loop runs.
DirectoryChanges ==
  /\ run.pc = "loop"
  /\ \E u \in UserIds :
       \/ run.dir[u] = "future" /\ run' = [run EXCEPT !.dir[u] = "present"]
       \/ run.dir[u] = "present" /\ run' = [run EXCEPT !.dir[u] = "gone"]
  /\ UNCHANGED <<store, now, nextId, diff, mrg>>

UsersNext == SearchUsers \/ UsersDone \/ DirectoryChanges

SpecUsers == UsersInit /\ [][UsersNext]_vars

\* The loop is never suspended for ever: a pending call returns or raises.
FairSpecUsers == SpecUsers /\ WF_vars(SearchUsers \/ UsersDone)

\* C19: a page of users is fetched only while the map holds fewer entries than
\* the total last reported, the first from 0 and every further one from the
\* cursor the previous page gave; the function returns only when the map has
\* reached that total; and it always comes to an end.
C19_UsersLoopTerminates ==
  /\ [][/\ (run.pc = "loop" /\ run'.start /= run.start) =>
             /\ mapSize(run.userList) < run.totalUsers
             /\ run'.start = run.next
             /\ run.calls = 0 => run'.start = 0
        /\ (run.pc = "loop" /\ run'.pc = "done") =>
             mapSize(run.userList) >= run.totalUsers
        /\ (run.pc = "loop" /\ mapSize(run.userList) >= run.totalUsers) =>
             (run'.pc = "done" \/ run'.dir /= run.dir)]_vars
  /\ <>(run.pc \in {"done", "rejected"})

\* The loop ended after the total had moved away from what the first page
\* reported.
C19_Witness ==
  /\ run.pc = "done"
  /\ run.calls = 2
  /\ \E u \in UserIds : run.dir[u] = "gone"
  /\ \E u \in UserIds : run.dir[u] = "present" /\ run.userList[u] /= Undefined

----------------------------------------------------------------------------
(* Further properties of the files of a record, under SpecFiles *)

\* The attachments the primary had before the merge.
PoolBefore == AttachmentsOf(mrg.last.before, mrg.last.docId)

\* Pending file i has no attachment of the primary with its remote id, and
\* its bytes were fetched.
Unmatched(i) ==
  /\ Loaded(i)
  /\ \A d \in PoolBefore :
       ~(hasMixin(d, BitrixSyncDoc)
         /\ asMixin(d, BitrixSyncDoc)["bitrixId"] = mrg.res.blobs[i].ed["bitrixId"])

\* The attachments the primary had that equal pending file i in name, size
\* and type.
HitsOf(i) ==
  {d \in PoolBefore : /\ d.top["name"] = mrg.res.blobs[i].load.name
                      /\ d.top["size"] = mrg.res.blobs[i].load.size
                      /\ d.top["type"] = mrg.res.blobs[i].load.type}

FirstHit(i) == CHOOSE d \in HitsOf(i) : \A e \in HitsOf(i) : d.top["_id"] <= e.top["_id"]

UploadsOf(b) == Cardinality({k \in 1..Len(mrg.last.uploads) : mrg.last.uploads[k] = b})

\* The attachments the merge added for remote id b.
AddedFor(b) ==
  {d \in AttachmentsFor(store, b) : DocsById(mrg.last.before, d.top["_id"]) = {}}

\* C20: for a pending file without a remote-id match whose bytes were fetched:
\* when attachments of the primary equal it in name, size and type, the first
\* is updated with the file's descriptor, the others are removed and nothing
\* is uploaded or added; when none does, the file is uploaded once, and a
\* record is added, one, holding the blob reference, exactly when the upload
\* answered 200.
C20_MatchByNameSizeType ==
  JustCommitted =>
    \A i \in 1..Len(mrg.res.blobs) :
      Unmatched(i) =>
        LET b == mrg.res.blobs[i].ed["bitrixId"]
        IN IF HitsOf(i) /= {}
             THEN /\ UploadsOf(b) = 0
                  /\ AddedFor(b) = {}
                  /\ \A d \in HitsOf(i) \ {FirstHit(i)} :
                       /\ DocsById(store, d.top["_id"]) = {}
                       /\ HasOp(mrg.last.writes, "remove", d.top["_id"])
                  /\ \E d \in DocsById(store, FirstHit(i).top["_id"]) :
                       /\ hasMixin(d, BitrixSyncDoc)
                       /\ \E j \in 1..Len(mrg.res.blobs) :
                            /\ Unmatched(j) /\ HitsOf(j) = HitsOf(i)
                            /\ asMixin(d, BitrixSyncDoc)["bitrixId"]
                                 = mrg.res.blobs[j].ed["bitrixId"]
                            /\ d.top["file"] = mrg.res.blobs[j].ed["file"]
             ELSE /\ UploadsOf(b) = 1
                  /\ Cardinality(AddedFor(b))
                       = (IF mrg.res.blobs[i].up = "200" THEN 1 ELSE 0)
                  /\ \A d \in AddedFor(b) :
                       /\ d.top["file"] /= EmptyString
                       /\ d.top["file"] = d.top["_id"]

\* One merge met both cases: a file that equalled two stored attachments and
\* a file that equalled none and was uploaded.
C20_Witness ==
  /\ JustCommitted
  /\ \E i \in 1..Len(mrg.res.blobs) : Unmatched(i) /\ Cardinality(HitsOf(i)) = 2
  /\ \E i \in 1..Len(mrg.res.blobs) :
       /\ Unmatched(i) /\ HitsOf(i) = {}
       /\ mrg.res.blobs[i].up = "200"
       /\ AddedFor(mrg.res.blobs[i].ed["bitrixId"]) /= {}

\* Pending file i did not load, or its upload did not answer 200.
FailedFile(i) ==
  \/ mrg.res.blobs[i].load.st /= "ok"
  \/ HitsOf(i) = {} /\ mrg.res.blobs[i].up /= "200"

\* The remote id of pending file i is on no attachment of the primary yet.
NoRemoteMatch(i) ==
  \A d \in PoolBefore :
    ~(hasMixin(d, BitrixSyncDoc)
      /\ asMixin(d, BitrixSyncDoc)["bitrixId"] = mrg.res.blobs[i].ed["bitrixId"])

\* C21: in a merge where nothing but files failed, a file that failed to load
\* or to upload gets no record and changes none; every other pending file
\* without a remote-id match is still loaded and, with no equal attachment
\* stored, uploaded and recorded; and the transaction commits, the store
\* holding the primary with its trait stamped by this merge and a comment of
\* the primary for every pending remote comment.
C21_FileFailureIsolated ==
  (mrg.last.kind = "merge" /\ mrg.last.failAt = 0) =>
    /\ mrg.last.committed
    /\ \E d \in DocsById(store, mrg.last.docId) :
         /\ d.top["_class"] = ClsPrimary
         /\ hasMixin(d, BitrixSyncDoc)
         /\ asMixin(d, BitrixSyncDoc)["bitrixId"] = RecordId
         /\ asMixin(d, BitrixSyncDoc)["syncTime"] = now
    /\ \A i \in 1..Len(mrg.res.extraSync) :
         mrg.res.extraSync[i]["bitrixId"] \in SyncedIds(store, mrg.last.docId)
    /\ \A i \in 1..Len(mrg.res.blobs) :
         LET b == mrg.res.blobs[i].ed["bitrixId"]
         IN /\ (NoRemoteMatch(i) /\ FailedFile(i)) =>
                 /\ AddedFor(b) = {}
                 /\ AttachmentsFor(store, b) = {}
            /\ NoRemoteMatch(i) =>
                 /\ b \in RangeOf(mrg.last.loads)
                 /\ (~FailedFile(i) /\ HitsOf(i) = {}) =>
                      /\ UploadsOf(b) = 1
                      /\ Cardinality(AddedFor(b)) = 1

\* One file failed to upload and the file after it was uploaded and recorded.
C21_Witness ==
  /\ mrg.last.kind = "merge" /\ mrg.last.failAt = 0
  /\ Len(mrg.res.blobs) = 2
  /\ Len(mrg.res.extraSync) = 1
  /\ NoRemoteMatch(1) /\ NoRemoteMatch(2)
  /\ HitsOf(1) = {} /\ mrg.res.blobs[1].load.st = "ok" /\ mrg.res.blobs[1].up = "throws"
  /\ ~FailedFile(2) /\ HitsOf(2) = {}
  /\ AddedFor(mrg.res.blobs[2].ed["bitrixId"]) /= {}

----------------------------------------------------------------------------
(* SpecRace: two runs of one mapping on the same remote record.  Each run   *)
(* looks the record up in its page's snapshot (486-500), converts it, and   *)
(* merges it (535); the other run may act between the lookup and the merge. *)
(* A merge is taken as one step here: its own awaits are left undivided.    *)

MaxRacers == 2
Racers == 1..MaxRacers

\* The store an earlier run left for the record, or nothing.
RaceStores ==
  {{}} \cup {syncDocument({}, <<>>,
                          convertResult(FilePrimaryId, ClsPrimary, RecordId, 1, {}, FALSE, cs,
                                        1, 0, FALSE),
                          0, 0, FirstStoredId).store : cs \in SUBSET CommentIds}

NoRacer == [pc |-> "start", ex |-> <<>>, res |-> NoInput, committed |-> FALSE]

RaceInit ==
  /\ now = 0
  /\ nextId = FirstFreshId
  /\ diff = DiffIdle
  /\ mrg = MergeIdle
  /\ store \in RaceStores
  /\ run = [pc |-> "race", procs |-> [p \in Racers |-> NoRacer]]

\* 486-531: the snapshot, the lookup in it, and the conversion of the record.
RaceLookup(p) ==
  /\ run.procs[p].pc = "start"
  /\ \E name \in Names, cs \in SUBSET CommentIds :
       /\ run' = [run EXCEPT
                    !.procs[p] = [pc |-> "found",
                                  ex |-> findExisting(findByClass(store, ClsPrimary), RecordId),
                                  res |-> convertResult(nextId, ClsPrimary, RecordId, name, {},
                                                        FALSE, cs, 1, 0, FALSE),
                                  committed |-> FALSE]]
       /\ nextId' = nextId + idsUsed(cs, 0, FALSE)
  /\ UNCHANGED <<store, now, diff, mrg>>

\* 535: syncDocument with the document the lookup found, against the store as
\* it is now.
RaceMerge(p) ==
  /\ run.procs[p].pc = "found"
  /\ \E failAt \in FailPoints :
     \E r \in {syncDocument(store, run.procs[p].ex, run.procs[p].res, failAt, now, nextId)} :
       /\ store' = r.store
       /\ nextId' = r.nid
       /\ run' = [run EXCEPT !.procs[p].pc = "done", !.procs[p].committed = r.committed]
  /\ UNCHANGED <<now, diff, mrg>>

RaceNext == \E p \in Racers : RaceLookup(p) \/ RaceMerge(p)

SpecRace == RaceInit /\ [][RaceNext]_vars

RaceOver == \A p \in Racers : run.procs[p].pc = "done" /\ run.procs[p].committed

\* C22 (the part it names in particular): when both runs have committed their
\* merge of the record, the store holds exactly one primary for it, and for
\* every remote comment id at most one comment of that primary.
C22_RaceLeavesOneRecord ==
  RaceOver =>
    /\ Cardinality(PrimariesOf(store, RecordId)) = 1
    /\ \A d \in PrimariesOf(store, RecordId) : \A c \in CommentIds :
         Cardinality({x \in SubDocs(store, d.top["_id"]) :
                        hasMixin(x, BitrixSyncDoc)
                        /\ asMixin(x, BitrixSyncDoc)["bitrixId"] = c}) <= 1

----------------------------------------------------------------------------
(* Sub-documents the pipeline did not create, under SpecFiles *)

\* The comments and attachments of the primary that carry no sync trait.
LocalSubDocs(S, parent) ==
  {d \in S : /\ d.top["_class"] \in {ClsComment, ClsAttachment}
             /\ d.top["attachedTo"] = parent
             /\ ~hasMixin(d, BitrixSyncDoc)}

\* C23: a merge of the primary removes none of its sub-documents that carry
\* no sync trait, whatever the pending remote sub-documents are.
C23_LocalSubDocsSurvive ==
  mrg.last.kind = "merge" =>
    \A d \in LocalSubDocs(mrg.last.before, mrg.last.docId) :
      DocsById(store, d.top["_id"]) /= {}

----------------------------------------------------------------------------
(* The parents of attachments, under SpecMerge *)

\* The comments of the primary that hold remote comment id c.
CommentsFor(S, parent, c) ==
  {x \in SubDocs(S, parent) : hasMixin(x, BitrixSyncDoc)
                              /\ asMixin(x, BitrixSyncDoc)["bitrixId"] = c}

\* C24 (the part it names in particular): after a committed merge, every
\* attachment the merge added for a file of a remote comment is attached to a
\* comment of the primary that holds that remote comment's id.
C24_CommentFilesAttached ==
  JustCommitted =>
    \A i \in 1..Len(mrg.res.blobs) : \A k \in 1..Len(mrg.res.extraSync) :
      mrg.res.blobs[i].ed["attachedTo"] = mrg.res.extraSync[k]["_id"] =>
        \A d \in AddedFor(mrg.res.blobs[i].ed["bitrixId"]) :
          d.top["attachedTo"] \in
            {c.top["_id"] : c \in CommentsFor(store, mrg.last.docId,
                                              mrg.res.extraSync[k]["bitrixId"])}

----------------------------------------------------------------------------
(* The limit of a run, under Spec *)

\* C25: in every state of doPerformSync the accepted count is at most the
\* requested limit, and the list a run returns never holds more documents than
\* the limit, also when linking the contacts of an organization raised after
\* the record was counted.
C25_LimitBoundsRun ==
  /\ run.pc = "sync" => \A i \in 1..Depth : run.frames[i].added <= run.frames[i].limit
  /\ run.pc = "returned" => Len(run.returned) <= run.limit

----------------------------------------------------------------------------
(* The accounts of the remote users, under SpecUsers *)

\* The accounts this call of synchronizeUsers created.
CreatedAccounts == {d \in store \ run.allEmployee : d._class = ClsEmployeeAccount}

\* The accounts of the snapshot that carry the e-mail e.
SnapshotAccounts(e) == {a \in run.allEmployee : a.email = e}

\* C26: after synchronizeUsers completes, no two accounts the run created share
\* an e-mail, and a remote user whose e-mail an account of the snapshot carries
\* is mapped to that account and has no account created for it; also when two
\* remote users share an e-mail and when a page was fetched more than once.
C26_OneAccountPerEmail ==
  run.pc = "done" =>
    /\ \A a, b \in CreatedAccounts : a.email = b.email => a = b
    /\ \A u \in UserIds :
         (run.userList[u] /= Undefined /\ SnapshotAccounts(run.email[u]) /= {}) =>
           /\ run.userList[u] \in {a._id : a \in SnapshotAccounts(run.email[u])}
           /\ \A a \in CreatedAccounts : a.email /= run.email[u]

============================================================================
